---------------------------- MODULE Spec2Model ----------------------------
(***************************************************************************)
(* Model of mondrian-schema-cat (src/src/lib.rs): the tag-scanning         *)
(* extractor (Fragment::get_schema_name, get_shared_dims, get_cubes,       *)
(* get_virtual_cubes, process_fragment) and the merger                     *)
(* (fragments_to_schema).                                                  *)
(*                                                                         *)
(* A text is a sequence of one-character strings; every text of the model  *)
(* is ASCII, so a byte index is a character index and every index that     *)
(* str::find returns is a character boundary.  Indices are 0-based as in   *)
(* the source; a span is the half-open range [start, end).                 *)
(***************************************************************************)
EXTENDS Integers, Sequences, FiniteSets

VARIABLES
    fragments,     \* the caller's input: the ordered list of fragment texts
    pc,            \* position inside fragments_to_schema
    extracted,     \* Vec<Fragment>: one record of four optional spans per fragment
    schema_name,   \* the local `schema_name`: Option<&str>
    final_schema,  \* the local String being built
    result         \* the value returned: Ok(text) or Err(message)

vars == <<fragments, pc, extracted, schema_name, final_schema, result>>

---------------------------------------------------------------------------
(* Bounds of the model *)

\* SpecFrag: a fragment text is a concatenation of at most MaxChunks chunks
MaxChunks == 4
\* Spec: a list holds at most MaxFrags fragments ...
MaxFrags == 3
\* ... made of at most MaxParts parts in total
MaxParts == 3
\* SpecDoc: at most MaxBlocks blocks of each category in one fragment
MaxBlocks == 1

---------------------------------------------------------------------------
(* The tag markers, lib.rs:50-54 *)

SCHEMA_TAG_OPEN == <<"<","S","c","h","e","m","a"," ","n","a","m","e","=","\"">>
SCHEMA_TAG_CLOSE == <<"<","/","S","c","h","e","m","a",">">>
CUBE_TAG_OPEN == <<"<","C","u","b","e">>
DIM_TAG_OPEN == <<"<","D","i","m","e","n","s","i","o","n">>
VIRTUALCUBE_TAG_OPEN == <<"<","V","i","r","t","u","a","l","C","u","b","e">>
\* the char '\"' searched for by get_schema_name
QUOTE == <<"\"">>

\* the literals pushed by fragments_to_schema
SCHEMA_HEAD == <<"<","S","c","h","e","m","a"," ","n","a","m","e","=","\"">>
NAME_TAIL == <<"\"",">","\n">>
SCHEMA_TAIL == <<"\n","<","/","S","c","h","e","m","a",">">>
ERR_MULTIPLE == "More than one schema name found"
ERR_NO_NAME == "No schema name found"

---------------------------------------------------------------------------
(* Option<usize>, Option<&str> and the str primitives the code uses *)

NotFound == [found |-> FALSE, at |-> 0]
Found(i) == [found |-> TRUE, at |-> i]

\* Option<&'a str> as a view into the fragment; Panic is a failed slice
None == [tag |-> "None", start |-> 0, end |-> 0]
Some(s, e) == [tag |-> "Some", start |-> s, end |-> e]
Panic == [tag |-> "Panic", start |-> 0, end |-> 0]

\* the characters of text[s..e]
Slice(text, s, e) == SubSeq(text, s + 1, e)
\* text[i..]
SliceFrom(text, i) == SubSeq(text, i + 1, Len(text))
\* the characters a span views
StrOf(text, span) == Slice(text, span.start, span.end)

RECURSIVE find_from(_, _, _)
find_from(text, pat, k) ==
    IF k + Len(pat) > Len(text) THEN NotFound
    ELSE IF SubSeq(text, k + 1, k + Len(pat)) = pat THEN Found(k)
    ELSE find_from(text, pat, k + 1)

\* str::find: the index of the first occurrence of pat, scanning from the left
find(text, pat) == find_from(text, pat, 0)

\* str::get(s..e): None unless s <= e <= len
get(text, s, e) == IF s <= e /\ e <= Len(text) THEN Some(s, e) ELSE None

---------------------------------------------------------------------------
(* Extractor: impl Fragment, lib.rs:67-167 *)

\* get_schema_name with the closing quote taken into the span
get_schema_name_with_quote(fragment) ==
    LET m == find(fragment, SCHEMA_TAG_OPEN) IN
    IF ~m.found THEN None
    ELSE LET i == m.at + Len(SCHEMA_TAG_OPEN) IN
         IF i > Len(fragment) THEN Panic
         ELSE LET q == find(SliceFrom(fragment, i), QUOTE) IN
              IF ~q.found THEN None ELSE get(fragment, i, i + q.at + 1)

\* lib.rs:72-83.  fragment[i..] panics when i is past the end.
get_schema_name(fragment) ==
    LET m == find(fragment, SCHEMA_TAG_OPEN) IN
    IF ~m.found THEN None
    ELSE LET i == m.at + Len(SCHEMA_TAG_OPEN) IN
         IF i > Len(fragment) THEN Panic
         ELSE LET q == find(SliceFrom(fragment, i), QUOTE) IN
              IF ~q.found THEN None ELSE get(fragment, i, i + q.at)

\* get_shared_dims without the comparison with the first cube index
get_shared_dims_unchecked(fragment) ==
    LET fc == find(fragment, CUBE_TAG_OPEN)
        d == find(fragment, DIM_TAG_OPEN)
    IN  IF fc.found
        THEN IF ~d.found THEN None
             ELSE LET i == d.at
                      c == find(SliceFrom(fragment, i), CUBE_TAG_OPEN)
                  IN  IF ~c.found THEN None ELSE get(fragment, i, i + c.at)
        ELSE IF ~d.found THEN None
             ELSE LET i == d.at
                      c == find(SliceFrom(fragment, i), SCHEMA_TAG_CLOSE)
                      j == IF c.found THEN c.at ELSE Len(fragment) - i
                  IN  get(fragment, i, i + j)

\* lib.rs:86-126.  `.or(Some(fragment.len()-i))` is evaluated eagerly: the
\* subtraction overflows (a panic) when i > len.
get_shared_dims(fragment) ==
    LET fc == find(fragment, CUBE_TAG_OPEN)
        d == find(fragment, DIM_TAG_OPEN)
    IN  IF fc.found
        THEN IF ~d.found THEN None
             ELSE LET i == d.at IN
                  IF i > Len(fragment) THEN Panic
                  ELSE LET c == find(SliceFrom(fragment, i), CUBE_TAG_OPEN) IN
                       IF ~c.found THEN None
                       ELSE IF i + c.at = fc.at THEN get(fragment, i, i + c.at)
                       ELSE None
        ELSE IF ~d.found THEN None
             ELSE LET i == d.at IN
                  IF i > Len(fragment) THEN Panic
                  ELSE LET c == find(SliceFrom(fragment, i), SCHEMA_TAG_CLOSE)
                           j == IF c.found THEN c.at ELSE Len(fragment) - i
                       IN  get(fragment, i, i + j)

\* get_cubes with the closing tag searched from the start of the fragment
\* and its index used as the length of the span
get_cubes_close_from_start(fragment) ==
    LET m == find(fragment, CUBE_TAG_OPEN) IN
    IF ~m.found THEN None
    ELSE LET i == m.at
             c == find(fragment, SCHEMA_TAG_CLOSE)
             j == IF c.found THEN c.at ELSE Len(fragment) - i
         IN  get(fragment, i, i + j)

\* lib.rs:129-138
get_cubes(fragment) ==
    LET m == find(fragment, CUBE_TAG_OPEN) IN
    IF ~m.found THEN None
    ELSE LET i == m.at IN
         IF i > Len(fragment) THEN Panic
         ELSE LET c == find(SliceFrom(fragment, i), SCHEMA_TAG_CLOSE)
                  j == IF c.found THEN c.at ELSE Len(fragment) - i
              IN  get(fragment, i, i + j)

\* get_virtual_cubes with `fragment.len()` as the fallback length and the
\* span taken by indexing, &fragment[i..i+j], which panics out of range
get_virtual_cubes_indexed(fragment) ==
    LET m == find(fragment, VIRTUALCUBE_TAG_OPEN) IN
    IF ~m.found THEN None
    ELSE LET i == m.at
             c == find(SliceFrom(fragment, i), SCHEMA_TAG_CLOSE)
             j == IF c.found THEN c.at ELSE Len(fragment)
         IN  IF i + j > Len(fragment) THEN Panic ELSE Some(i, i + j)

\* lib.rs:141-150
get_virtual_cubes(fragment) ==
    LET m == find(fragment, VIRTUALCUBE_TAG_OPEN) IN
    IF ~m.found THEN None
    ELSE LET i == m.at IN
         IF i > Len(fragment) THEN Panic
         ELSE LET c == find(SliceFrom(fragment, i), SCHEMA_TAG_CLOSE)
                  j == IF c.found THEN c.at ELSE Len(fragment) - i
              IN  get(fragment, i, i + j)

\* lib.rs:152-166: the struct Fragment (lib.rs:60-65) of one fragment
process_fragment(fragment) ==
    [schema_name |-> get_schema_name(fragment),
     shared_dims |-> get_shared_dims(fragment),
     cubes |-> get_cubes(fragment),
     virtual_cubes |-> get_virtual_cubes(fragment)]

\* a panic inside any of the four extractions unwinds out of process_fragment
Panicked(frag) ==
    \/ frag.schema_name.tag = "Panic"
    \/ frag.shared_dims.tag = "Panic"
    \/ frag.cubes.tag = "Panic"
    \/ frag.virtual_cubes.tag = "Panic"

---------------------------------------------------------------------------
(* Merger: fragments_to_schema, lib.rs:171-231 *)

\* lib.rs:182-184
process_all(frags) == [k \in 1..Len(frags) |-> process_fragment(frags[k])]

NoName == [some |-> FALSE, str |-> <<>>]
SomeName(s) == [some |-> TRUE, str |-> s]

\* the loop without the comparison: the last name wins
RECURSIVE name_loop_last_wins(_, _, _, _)
name_loop_last_wins(frags, ex, k, stored) ==
    IF k > Len(ex) THEN [err |-> FALSE, name |-> stored]
    ELSE LET cur == ex[k].schema_name IN
         IF cur.tag = "Some"
         THEN name_loop_last_wins(frags, ex, k + 1, SomeName(StrOf(frags[k], cur)))
         ELSE name_loop_last_wins(frags, ex, k + 1, stored)

\* the loop with a fragment without a name clearing the stored name
RECURSIVE name_loop_reset(_, _, _, _)
name_loop_reset(frags, ex, k, stored) ==
    IF k > Len(ex) THEN [err |-> FALSE, name |-> stored]
    ELSE LET cur == ex[k].schema_name IN
         IF cur.tag = "Some"
         THEN IF stored.some
              THEN IF stored.str # StrOf(frags[k], cur)
                   THEN [err |-> TRUE, name |-> stored]
                   ELSE name_loop_reset(frags, ex, k + 1, stored)
              ELSE name_loop_reset(frags, ex, k + 1, SomeName(StrOf(frags[k], cur)))
         ELSE name_loop_reset(frags, ex, k + 1, NoName)

\* lib.rs:187-200: the loop over &fragments from its k-th element on, with
\* `stored` the current value of the local schema_name
RECURSIVE name_loop(_, _, _, _)
name_loop(frags, ex, k, stored) ==
    IF k > Len(ex) THEN [err |-> FALSE, name |-> stored]
    ELSE LET cur == ex[k].schema_name IN
         IF cur.tag = "Some"
         THEN IF stored.some
              THEN IF stored.str # StrOf(frags[k], cur)
                   THEN [err |-> TRUE, name |-> stored]
                   ELSE name_loop(frags, ex, k + 1, stored)
              ELSE name_loop(frags, ex, k + 1, SomeName(StrOf(frags[k], cur)))
         ELSE name_loop(frags, ex, k + 1, stored)

\* String::push_str
push_str(buf, s) == buf \o s

\* lib.rs:212-216, 217-221, 222-226: one `for frag in &fragments` loop that
\* pushes the field `fld` of every fragment, from the k-th element on
RECURSIVE push_loop(_, _, _, _, _)
push_loop(buf, frags, ex, fld, k) ==
    IF k > Len(ex) THEN buf
    ELSE LET span == ex[k][fld] IN
         IF span.tag = "Some"
         THEN push_loop(push_str(buf, StrOf(frags[k], span)), frags, ex, fld, k + 1)
         ELSE push_loop(buf, frags, ex, fld, k + 1)

\* the loop run over the fragments from the last to the first
RECURSIVE push_loop_rev(_, _, _, _, _)
push_loop_rev(buf, frags, ex, fld, k) ==
    IF k < 1 THEN buf
    ELSE LET span == ex[k][fld] IN
         IF span.tag = "Some"
         THEN push_loop_rev(push_str(buf, StrOf(frags[k], span)), frags, ex, fld, k - 1)
         ELSE push_loop_rev(buf, frags, ex, fld, k - 1)

push_cubes_reversed(buf, frags, ex) == push_loop_rev(buf, frags, ex, "cubes", Len(ex))

push_shared_dims(buf, frags, ex) == push_loop(buf, frags, ex, "shared_dims", 1)
push_cubes(buf, frags, ex) == push_loop(buf, frags, ex, "cubes", 1)
push_virtual_cubes(buf, frags, ex) == push_loop(buf, frags, ex, "virtual_cubes", 1)

\* Result<String>
NoResult == [kind |-> "None", text |-> <<>>, msg |-> ""]
Ok(text) == [kind |-> "Ok", text |-> text, msg |-> ""]
Err(msg) == [kind |-> "Err", text |-> <<>>, msg |-> msg]
Unwound == [kind |-> "Panic", text |-> <<>>, msg |-> ""]

\* lib.rs:171-231 as one function of its argument
fragments_to_schema(frags) ==
    LET ex == process_all(frags) IN
    IF \E k \in 1..Len(ex) : Panicked(ex[k]) THEN Unwound
    ELSE LET r == name_loop(frags, ex, 1, NoName) IN
         IF r.err THEN Err(ERR_MULTIPLE)
         ELSE IF ~r.name.some THEN Err(ERR_NO_NAME)
         ELSE LET b0 == push_str(push_str(push_str(<<>>, SCHEMA_HEAD), r.name.str), NAME_TAIL)
                  b1 == push_shared_dims(b0, frags, ex)
                  b2 == push_cubes(b1, frags, ex)
                  b3 == push_virtual_cubes(b2, frags, ex)
              IN  Ok(push_str(b3, SCHEMA_TAIL))

---------------------------------------------------------------------------
(* The steps of fragments_to_schema *)

\* lib.rs:182-184
ProcessFragments ==
    /\ pc = "process"
    /\ extracted' = process_all(fragments)
    /\ IF \E k \in 1..Len(fragments) : Panicked(process_fragment(fragments[k]))
       THEN pc' = "done" /\ result' = Unwound
       ELSE pc' = "names" /\ UNCHANGED result
    /\ UNCHANGED <<fragments, schema_name, final_schema>>

\* lib.rs:187-200
ResolveSchemaName ==
    /\ pc = "names"
    /\ LET r == name_loop(fragments, extracted, 1, NoName) IN
       /\ schema_name' = r.name
       /\ IF r.err
          THEN pc' = "done" /\ result' = Err(ERR_MULTIPLE)
          ELSE pc' = "header" /\ UNCHANGED result
    /\ UNCHANGED <<fragments, extracted, final_schema>>

\* lib.rs:203-210
PushHeader ==
    /\ pc = "header"
    /\ IF schema_name.some
       THEN /\ final_schema' = push_str(push_str(push_str(<<>>, SCHEMA_HEAD),
                                                 schema_name.str), NAME_TAIL)
            /\ pc' = "shared_dims"
            /\ UNCHANGED result
       ELSE /\ final_schema' = push_str(<<>>, SCHEMA_HEAD)
            /\ pc' = "done"
            /\ result' = Err(ERR_NO_NAME)
    /\ UNCHANGED <<fragments, extracted, schema_name>>

\* lib.rs:212-216
PushSharedDims ==
    /\ pc = "shared_dims"
    /\ final_schema' = push_shared_dims(final_schema, fragments, extracted)
    /\ pc' = "cubes"
    /\ UNCHANGED <<fragments, extracted, schema_name, result>>

\* lib.rs:217-221
PushCubes ==
    /\ pc = "cubes"
    /\ final_schema' = push_cubes(final_schema, fragments, extracted)
    /\ pc' = "virtual_cubes"
    /\ UNCHANGED <<fragments, extracted, schema_name, result>>

\* lib.rs:222-226
PushVirtualCubes ==
    /\ pc = "virtual_cubes"
    /\ final_schema' = push_virtual_cubes(final_schema, fragments, extracted)
    /\ pc' = "close"
    /\ UNCHANGED <<fragments, extracted, schema_name, result>>

\* lib.rs:228-230
PushClose ==
    /\ pc = "close"
    /\ final_schema' = push_str(final_schema, SCHEMA_TAIL)
    /\ result' = Ok(final_schema')
    /\ pc' = "done"
    /\ UNCHANGED <<fragments, extracted, schema_name>>

Next ==
    \/ ProcessFragments
    \/ ResolveSchemaName
    \/ PushHeader
    \/ PushSharedDims
    \/ PushCubes
    \/ PushVirtualCubes
    \/ PushClose

\* the state on entry to fragments_to_schema(frags)
Entry(frags) ==
    /\ fragments = frags
    /\ pc = "process"
    /\ extracted = <<>>
    /\ schema_name = NoName
    /\ final_schema = <<>>
    /\ result = NoResult

---------------------------------------------------------------------------
(* Inputs *)

\* SpecFrag: arbitrary, possibly malformed texts: every marker, a lone quote,
\* a filler character and a truncated marker, in any order
Chunks ==
    {SCHEMA_TAG_OPEN, QUOTE, SCHEMA_TAG_CLOSE, CUBE_TAG_OPEN, DIM_TAG_OPEN,
     VIRTUALCUBE_TAG_OPEN, <<"x">>, <<"<","C","u","b">>}

\* the text made of the pieces ps[k], ps[k+1], ..., in that order
RECURSIVE Concat(_, _)
Concat(ps, k) == IF k > Len(ps) THEN <<>> ELSE ps[k] \o Concat(ps, k + 1)

\* Spec: fragments made of whole parts, in any order
SCHEMA_A == SCHEMA_TAG_OPEN \o <<"a","\"",">">>
SCHEMA_B == SCHEMA_TAG_OPEN \o <<"b","\"",">">>
DIM_BLOCK == DIM_TAG_OPEN \o <<"/",">">>
CUBE_BLOCK == CUBE_TAG_OPEN \o <<"/",">">>
VCUBE_BLOCK == VIRTUALCUBE_TAG_OPEN \o <<"/",">">>

Parts == {SCHEMA_A, SCHEMA_B, DIM_BLOCK, CUBE_BLOCK, VCUBE_BLOCK, SCHEMA_TAG_CLOSE}

\* the list of n fragments that holds the parts ps, the k-th part in
\* fragment cut[k]
SubParts(ps, cut, i) ==
    LET ks == {k \in 1..Len(ps) : cut[k] = i}
        F[k \in 0..Len(ps)] ==
            IF k = 0 THEN <<>>
            ELSE IF k \in ks THEN F[k - 1] \o ps[k] ELSE F[k - 1]
    IN  F[Len(ps)]

FragList(n, ps, cut) == [i \in 1..n |-> SubParts(ps, cut, i)]

NonDecreasing(cut) ==
    \A k \in DOMAIN cut : IF k = 1 THEN TRUE ELSE cut[k - 1] <= cut[k]

\* SpecDoc: fragments that keep the fixed order: an optional schema opening
\* tag, shared dimensions, cubes (each with an inner dimension), virtual
\* cubes, an optional schema closing tag
CUBE_CLOSE == <<"<","/","C","u","b","e",">">>
CUBE_WITH_DIM == CUBE_TAG_OPEN \o <<">">> \o DIM_BLOCK \o CUBE_CLOSE

RECURSIVE Repeat(_, _)
Repeat(block, n) == IF n = 0 THEN <<>> ELSE block \o Repeat(block, n - 1)

DocFragment(open, nd, nc, nv, close) ==
    open \o Repeat(DIM_BLOCK, nd) \o Repeat(CUBE_WITH_DIM, nc)
         \o Repeat(VCUBE_BLOCK, nv) \o close

DocFragments ==
    {DocFragment(open, nd, nc, nv, close) :
        open \in {<<>>, SCHEMA_A, SCHEMA_B}, nd \in 0..MaxBlocks,
        nc \in 0..MaxBlocks, nv \in 0..MaxBlocks,
        close \in {<<>>, SCHEMA_TAG_CLOSE}}

DocInputs ==
    {<<>>} \cup {<<f>> : f \in DocFragments}
           \cup {<<f, g>> : f \in DocFragments, g \in DocFragments}

---------------------------------------------------------------------------
(* Specifications *)

\* fragments_to_schema on a list of fragments of whole parts
\* (at most MaxFrags fragments, at most MaxParts parts in total)
Init ==
    \E n \in 0..MaxFrags, m \in 0..MaxParts :
        \E ps \in [1..m -> Parts], cut \in [1..m -> 1..n] :
            NonDecreasing(cut) /\ Entry(FragList(n, ps, cut))
Spec == Init /\ [][Next]_vars

\* process_fragment on one arbitrary text
InitFrag ==
    \E m \in 0..MaxChunks : \E cs \in [1..m -> Chunks] : Entry(<<Concat(cs, 1)>>)
SpecFrag == InitFrag /\ [][ProcessFragments]_vars

\* fragments_to_schema on fragments that keep the fixed order
InitDoc == \E frags \in DocInputs : Entry(frags)
SpecDoc == InitDoc /\ [][Next]_vars

---------------------------------------------------------------------------
(* Reference notions the properties are stated with: marker positions as   *)
(* sets, independent of the scanning order of the code                     *)

\* every index at which pat occurs in text
Occ(text, pat) ==
    {k \in 0..(Len(text) - Len(pat)) : Slice(text, k, k + Len(pat)) = pat}

Least(S) == CHOOSE k \in S : \A m \in S : k <= m

\* the end of a block that starts at p: the first schema-close marker at or
\* after p, else the end of the text
BlockEnd(text, p) ==
    LET cl == {q \in Occ(text, SCHEMA_TAG_CLOSE) : q >= p} IN
    IF cl = {} THEN Len(text) ELSE Least(cl)

\* the span from the first `marker` to the block end
RefBlock(text, marker) ==
    LET occ == Occ(text, marker) IN
    IF occ = {} THEN None ELSE Some(Least(occ), BlockEnd(text, Least(occ)))

RefSchemaName(text) ==
    LET occ == Occ(text, SCHEMA_TAG_OPEN) IN
    IF occ = {} THEN None
    ELSE LET i == Least(occ) + Len(SCHEMA_TAG_OPEN)
             qs == {q \in i..(Len(text) - 1) : text[q + 1] = "\""}
         IN  IF qs = {} THEN None ELSE Some(i, Least(qs))

RefSharedDims(text) ==
    LET ds == Occ(text, DIM_TAG_OPEN)
        cs == Occ(text, CUBE_TAG_OPEN)
    IN  IF ds = {} THEN None
        ELSE IF cs # {}
             THEN IF Least(ds) < Least(cs) THEN Some(Least(ds), Least(cs)) ELSE None
             ELSE Some(Least(ds), BlockEnd(text, Least(ds)))

\* the fragments have been processed and process_fragment returned
Processed == pc = "names"

---------------------------------------------------------------------------
(* Extractor properties, checked under SpecFrag *)

\* C7: get_schema_name is none without a schema-open marker or without a
\* quote after its first occurrence; otherwise it is exactly the span
\* strictly between the end of the first marker and the next quote (an
\* empty name is a present, empty span).
SchemaNameSpan ==
    pc # "process" =>
        \A k \in 1..Len(fragments) :
            extracted[k].schema_name = RefSchemaName(fragments[k])

\* a name of at least one character was extracted, without its quotes
SchemaNameWitness ==
    /\ Processed
    /\ extracted[1].schema_name.tag = "Some"
    /\ StrOf(fragments[1], extracted[1].schema_name) = <<"x">>

SharedDimsSpan ==
    pc # "process" =>
        \A k \in 1..Len(fragments) :
            extracted[k].shared_dims = RefSharedDims(fragments[k])

\* the first dimension is inside a cube and a further cube follows it:
\* the result is none
SharedDimsWitness ==
    /\ Processed
    /\ LET ds == Occ(fragments[1], DIM_TAG_OPEN)
           cs == Occ(fragments[1], CUBE_TAG_OPEN)
       IN  /\ ds # {} /\ cs # {}
           /\ Least(cs) < Least(ds)
           /\ \E c \in cs : c > Least(ds)
    /\ extracted[1].shared_dims = None

\* C9: for every text process_fragment returns, and each of its four
\* results is none or a span with 0 <= start <= end <= length; a present
\* block span starts at the first occurrence of its marker, a present name
\* right after the first schema-open marker.
SpansInBounds ==
    /\ pc # "process" => Processed
    /\ Processed =>
        \A k \in 1..Len(fragments) :
            LET t == fragments[k]
                StartsAt(r, marker, off) ==
                    /\ r.tag \in {"None", "Some"}
                    /\ r.tag = "Some" =>
                        /\ 0 <= r.start /\ r.start <= r.end /\ r.end <= Len(t)
                        /\ Occ(t, marker) # {}
                        /\ r.start = Least(Occ(t, marker)) + off
            IN  /\ StartsAt(extracted[k].schema_name, SCHEMA_TAG_OPEN, Len(SCHEMA_TAG_OPEN))
                /\ StartsAt(extracted[k].shared_dims, DIM_TAG_OPEN, 0)
                /\ StartsAt(extracted[k].cubes, CUBE_TAG_OPEN, 0)
                /\ StartsAt(extracted[k].virtual_cubes, VIRTUALCUBE_TAG_OPEN, 0)

\* a malformed text was processed: an unterminated schema-open marker at the
\* very end of the text, after a cube marker
SpansInBoundsWitness ==
    /\ Processed
    /\ LET t == fragments[1] IN
       /\ Occ(t, SCHEMA_TAG_OPEN) = {Len(t) - Len(SCHEMA_TAG_OPEN)}
       /\ extracted[1].schema_name = None
       /\ extracted[1].cubes.tag = "Some"
       /\ extracted[1].cubes.end = Len(t)

---------------------------------------------------------------------------
(* Merger properties, checked under Spec *)

Done == pc = "done"

\* the text of field fld that process_fragment extracts from text alone
\* (empty when absent)
FieldText(text, fld) ==
    LET r == process_fragment(text)[fld] IN
    IF r.tag = "Some" THEN StrOf(text, r) ELSE <<>>

\* the field fld of every fragment, in fragment order, with no separator
AllOf(frags, fld) == Concat([k \in 1..Len(frags) |-> FieldText(frags[k], fld)], 1)

\* the fragments that yield a schema name
Named(frags) == {k \in 1..Len(frags) : get_schema_name(frags[k]).tag = "Some"}
NameOf(frags, k) == StrOf(frags[k], get_schema_name(frags[k]))

\* C1: on success the text is the schema head, the resolved name, `">` and a
\* newline, then all shared_dims, then all cubes, then all virtual_cubes,
\* each in fragment order with nothing between, then a newline and the
\* closing tag.
MergedText ==
    (Done /\ result.kind = "Ok") =>
        /\ Named(fragments) # {}
        /\ result.text =
              SCHEMA_HEAD \o NameOf(fragments, Least(Named(fragments))) \o NAME_TAIL
              \o AllOf(fragments, "shared_dims")
              \o AllOf(fragments, "cubes")
              \o AllOf(fragments, "virtual_cubes")
              \o SCHEMA_TAIL

\* a successful merge in which an earlier and a later fragment contribute
\* different cubes spans
MergedTextWitness ==
    /\ Done /\ result.kind = "Ok"
    /\ \E i, j \in 1..Len(fragments) :
        /\ i < j
        /\ FieldText(fragments[i], "cubes") # <<>>
        /\ FieldText(fragments[j], "cubes") # <<>>
        /\ FieldText(fragments[i], "cubes") # FieldText(fragments[j], "cubes")

\* C2: the outcome is decided by the extracted names: no name, the
\* missing-name error; two differing names anywhere, the multiple-names
\* error; otherwise success with the first name.  An error carries no text.
Outcome ==
    Done =>
        LET ks == Named(fragments) IN
        /\ IF ks = {} THEN result = Err(ERR_NO_NAME)
           ELSE IF \E i, j \in ks : NameOf(fragments, i) # NameOf(fragments, j)
                THEN result = Err(ERR_MULTIPLE)
           ELSE /\ result.kind = "Ok"
                /\ LET head == SCHEMA_HEAD \o NameOf(fragments, Least(ks)) \o NAME_TAIL
                   IN  /\ Len(result.text) >= Len(head)
                       /\ SubSeq(result.text, 1, Len(head)) = head
        /\ result.kind # "Ok" => result.text = <<>>

\* differing names in the first and the last of three fragments, a nameless
\* fragment between them: the multiple-names error
OutcomeWitness ==
    /\ Done
    /\ Len(fragments) = 3
    /\ Named(fragments) = {1, 3}
    /\ NameOf(fragments, 1) # NameOf(fragments, 3)
    /\ result = Err(ERR_MULTIPLE)

\* a fragment with none of the four opening markers
Neutral(text) ==
    /\ Occ(text, SCHEMA_TAG_OPEN) = {}
    /\ Occ(text, DIM_TAG_OPEN) = {}
    /\ Occ(text, CUBE_TAG_OPEN) = {}
    /\ Occ(text, VIRTUALCUBE_TAG_OPEN) = {}

Without(frags, k) == SubSeq(frags, 1, k - 1) \o SubSeq(frags, k + 1, Len(frags))

\* C10: a fragment with none of the four opening markers is neutral: the
\* result for a list that holds it at any position is the result for the
\* list without it (same text, same error).
NeutralFragment ==
    Done =>
        \A k \in 1..Len(fragments) :
            Neutral(fragments[k]) =>
                result = fragments_to_schema(Without(fragments, k))

\* a successful merge of a list with a lone `</Schema>` between two
\* fragments that both contribute
NeutralFragmentWitness ==
    /\ Done /\ result.kind = "Ok"
    /\ Len(fragments) = 3
    /\ fragments[2] = SCHEMA_TAG_CLOSE
    /\ ~Neutral(fragments[1]) /\ ~Neutral(fragments[3])

---------------------------------------------------------------------------
(* Properties of fragments that keep the fixed order, checked under SpecDoc *)

\* C5: when cube blocks are followed by virtual cube blocks, the cubes span
\* ends before the first `<VirtualCube` marker.
CubesExcludeVirtualCubes ==
    pc # "process" =>
        \A k \in 1..Len(fragments) :
            LET c == extracted[k].cubes
                v == extracted[k].virtual_cubes
            IN  (c.tag = "Some" /\ v.tag = "Some" /\ c.start < v.start)
                    => c.end <= v.start

\* C3: a single complete document `<Schema name="X">` D C V `</Schema>`
\* merges to the head with X, D, C, V and the closing tag, every block once.
RoundTrip ==
    Done =>
        \A nd, nc, nv \in 0..MaxBlocks :
            fragments = <<DocFragment(SCHEMA_A, nd, nc, nv, SCHEMA_TAG_CLOSE)>> =>
                result = Ok(SCHEMA_HEAD \o <<"a">> \o NAME_TAIL
                            \o Repeat(DIM_BLOCK, nd) \o Repeat(CUBE_WITH_DIM, nc)
                            \o Repeat(VCUBE_BLOCK, nv) \o SCHEMA_TAIL)

\* C8: in the output every `<Cube` marker comes before every `<VirtualCube`
\* marker.
CategoryOrder ==
    (Done /\ result.kind = "Ok") =>
        \A c \in Occ(result.text, CUBE_TAG_OPEN) :
            \A v \in Occ(result.text, VIRTUALCUBE_TAG_OPEN) : c < v

=============================================================================
